---- MODULE Spec2Model ----
(***************************************************************************)
(* Model of the menu parser of app.py: the letter-desquash normalizer,     *)
(* the line filter, the weekday locator, the two segmenters, the item      *)
(* extractor and the deduplicator.  Python strings are TLA+ strings; the   *)
(* regular expressions of the source are written out as matchers over     *)
(* character positions.  Offsets are 0-based and slices half-open, as in   *)
(* the source.                                                             *)
(***************************************************************************)
EXTENDS Integers, Sequences, FiniteSets, TLC

VARIABLES pc,                \* position in the operation being run
          text_lines,        \* parse_week_pdf: the lines read from the PDF
          norm_lines,        \* parse_week_pdf: normalised, filtered lines
          blob,              \* parse_week_pdf: lower-cased text
          hits,              \* parse_week_pdf: located weekdays <<wd, offset>>
          segments_by_pos,   \* parse_week_pdf: weekday -> blob segment
          primary,           \* results as the primary strategy left them
          marker_idx,        \* parse_week_pdf: indices of the anchor lines
          fallback,          \* which branch of step 4 was taken
          results,           \* parse_week_pdf: the returned mapping
          dishes,            \* the dishes a priced text is composed of
          lines,             \* _extract_items_from_lines: argument
          items,             \* _extract_items_from_lines: return value
          L,                 \* dedup: the item list given
          deduped,           \* dedup: the list after one pass
          deduped2,          \* dedup: the list after a second pass
          squash_in,         \* _squash_spaced_letters: argument
          squash_out         \* _squash_spaced_letters: return value

parse_vars == <<text_lines, norm_lines, blob, hits, segments_by_pos,
                primary, marker_idx, fallback, results>>

extract_vars == <<dishes, lines, items>>

dedup_vars == <<L, deduped, deduped2>>

squash_vars == <<squash_in, squash_out>>

vars == <<pc, parse_vars, extract_vars, dedup_vars, squash_vars>>

(* ---------------------------- bounds ----------------------------------- *)
MaxLines == 4
MaxMarkerLines == 6
MaxDishes == 3
MaxPlainLines == 3
MaxItems == 3
MaxTokens == 4

(* ------------------------ characters and strings ----------------------- *)
None == "None"

UpperStr == "ABCDEFGHIJKLMNOPQRSTUVWXYZÄÖÜ"
LowerStr == "abcdefghijklmnopqrstuvwxyzäöü"
DigitStr == "0123456789"

Ch(s, i) == IF 0 <= i /\ i < Len(s) THEN SubSeq(s, i + 1, i + 1) ELSE ""

Slice(s, a, b) == SubSeq(s, a + 1, b)

CharsOf(s) == {SubSeq(s, i, i) : i \in 1..Len(s)}

UpperSet == CharsOf(UpperStr)
LowerSet == CharsOf(LowerStr)
DigitSet == CharsOf(DigitStr)
SpaceSet == {" ", "\n", "\t"}

LowerOf == [c \in UpperSet |->
              LET i == CHOOSE k \in 1..Len(UpperStr) : SubSeq(UpperStr, k, k) = c
              IN  SubSeq(LowerStr, i, i)]

IsUpper(c) == c \in UpperSet
IsLower(c) == c \in LowerSet
IsLetter(c) == c \in UpperSet \/ c \in LowerSet
IsDigit(c) == c \in DigitSet
IsSpace(c) == c \in SpaceSet
IsWord(c) == IsLetter(c) \/ IsDigit(c) \/ c = "_"

LowerCh(c) == IF c \in UpperSet THEN LowerOf[c] ELSE c

(* least and greatest element of a set of offsets, -1 for the empty set *)
MinOf(S) == IF S = {} THEN -1 ELSE CHOOSE x \in S : \A y \in S : x <= y

MaxOf(S) == IF S = {} THEN -1 ELSE CHOOSE x \in S : \A y \in S : x >= y

(* concatenation of the strings ps[a], ..., ps[b] *)
RECURSIVE CatRange(_, _, _)
CatRange(ps, a, b) ==
    IF a > b THEN ""
    ELSE IF a = b THEN ps[a]
    ELSE LET m == (a + b) \div 2
         IN  CatRange(ps, a, m) \o CatRange(ps, m + 1, b)

Cat(ps) == CatRange(ps, 1, Len(ps))

Lower(s) == Cat([i \in 1..Len(s) |-> LowerCh(SubSeq(s, i, i))])

RECURSIVE SkipSpaces(_, _)
SkipSpaces(s, i) ==
    IF i >= Len(s) \/ ~IsSpace(Ch(s, i)) THEN i ELSE SkipSpaces(s, i + 1)

RECURSIVE SkipNonSpaces(_, _)
SkipNonSpaces(s, i) ==
    IF i >= Len(s) \/ IsSpace(Ch(s, i)) THEN i ELSE SkipNonSpaces(s, i + 1)

Strip(s, cs) ==
    LET keep == {k \in 0..(Len(s) - 1) : Ch(s, k) \notin cs}
        a == MinOf(keep)
        b == MaxOf(keep)
    IN  IF a = -1 THEN "" ELSE Slice(s, a, b + 1)

StartsAt(s, i, sub) == i + Len(sub) <= Len(s) /\ Slice(s, i, i + Len(sub)) = sub

StartsWith(s, sub) == StartsAt(s, 0, sub)

FindFrom(s, sub, i) == MinOf({k \in i..(Len(s) - Len(sub)) : StartsAt(s, k, sub)})

Contains(s, sub) == FindFrom(s, sub, 0) # -1

RECURSIVE Replace(_, _, _)
Replace(s, old, new) ==
    LET i == FindFrom(s, old, 0)
    IN  IF i = -1 THEN s
        ELSE Slice(s, 0, i) \o new \o Replace(Slice(s, i + Len(old), Len(s)), old, new)

(* re.sub(r"\s{minrun,}", repl, s) *)
SubSpaceRuns(s, minrun, repl) ==
    Cat([i \in 1..Len(s) |->
           LET k == i - 1
           IN  IF ~IsSpace(Ch(s, k)) THEN Ch(s, k)
               ELSE IF IsSpace(Ch(s, k - 1)) THEN ""
               ELSE LET j == SkipSpaces(s, k)
                    IN  IF j - k >= minrun THEN repl ELSE Slice(s, k, j)])

CollapseWs(s) == SubSpaceRuns(s, 1, " ")

RemoveWs(s) == SubSpaceRuns(s, 1, "")

RECURSIVE SplitFrom(_, _)
SplitFrom(s, i) ==
    LET a == SkipSpaces(s, i)
    IN  IF a >= Len(s) THEN <<>>
        ELSE LET b == SkipNonSpaces(s, a)
             IN  <<Slice(s, a, b)>> \o SplitFrom(s, b)

Split(s) == SplitFrom(s, 0)

Join(sep, ws) ==
    Cat([i \in 1..Len(ws) |-> IF i = 1 THEN ws[i] ELSE sep \o ws[i]])

RECURSIVE SplitLinesFrom(_, _)
SplitLinesFrom(s, a) ==
    IF a >= Len(s) THEN <<>>
    ELSE LET i == FindFrom(s, "\n", a)
         IN  IF i = -1 THEN <<Slice(s, a, Len(s))>>
             ELSE <<Slice(s, a, i)>> \o SplitLinesFrom(s, i + 1)

SplitLines(s) == SplitLinesFrom(s, 0)

CountLetters(s) == Cardinality({i \in 0..(Len(s) - 1) : IsLetter(Ch(s, i))})

(* ------------------- _squash_spaced_letters (50-59) -------------------- *)
FullMatchSpacedLetters(word) ==
    /\ Len(word) > 0
    /\ IsLetter(Ch(word, 0))
    /\ \A i \in 0..(Len(word) - 1) : IsLetter(Ch(word, i)) \/ IsSpace(Ch(word, i))
    /\ CountLetters(word) >= 3

fix_word(word) == IF FullMatchSpacedLetters(word) THEN RemoveWs(word) ELSE word

_squash_spaced_letters(s) ==
    LET ws == Split(s)
    IN  Join(" ", [i \in 1..Len(ws) |-> fix_word(ws[i])])

(* ------------------- _extract_items_from_lines (61-101) ---------------- *)
(* \b : exactly one of the two neighbouring characters is a word character *)
WordBoundary(s, i) == IsWord(Ch(s, i - 1)) # IsWord(Ch(s, i))

(* (?:\s*,\s*[A-ZÄÖÜ])+ followed by \b, taken greedily from offset j:      *)
(* the end of the longest such run, -1 when there is none                  *)
RECURSIVE AllergenReps(_, _)
AllergenReps(s, j) ==
    LET a == SkipSpaces(s, j)
        b == SkipSpaces(s, a + 1)
    IN  IF Ch(s, a) = "," /\ IsUpper(Ch(s, b))
        THEN LET more == AllergenReps(s, b + 1)
             IN  IF more # -1 THEN more
                 ELSE IF WordBoundary(s, b + 1) THEN b + 1 ELSE -1
        ELSE -1

AllergenEnd(s, i) ==
    IF WordBoundary(s, i) /\ IsUpper(Ch(s, i)) THEN AllergenReps(s, i + 1) ELSE -1

RECURSIVE StripAllergensFrom(_, _)
StripAllergensFrom(s, i) ==
    LET k == MinOf({x \in i..(Len(s) - 1) : AllergenEnd(s, x) # -1})
    IN  IF k = -1 THEN Slice(s, i, Len(s))
        ELSE Slice(s, i, k) \o StripAllergensFrom(s, AllergenEnd(s, k))

StripAllergens(s) == StripAllergensFrom(s, 0)

LegendKeywords == {"allergene", "allergien", "icon", "info", "bio"}

LegendAt(s, low, i) ==
    /\ WordBoundary(s, i)
    /\ \E kw \in LegendKeywords :
          StartsAt(low, i, kw) /\ WordBoundary(s, i + Len(kw))

LegendStart(s, low) == MinOf({i \in 0..(Len(s) - 1) : LegendAt(s, low, i)})

(* the keyword and everything after it, up to the end of the text, go *)
StripLegend(s) ==
    LET i == LegendStart(s, Lower(s))
    IN  IF i = -1 THEN s ELSE Slice(s, 0, i)

(* (?=\s*(?:[A-ZÄÖÜ]|$)|\s*CHF) under IGNORECASE: any letter, or the end *)
Lookahead(s, e) ==
    LET k == SkipSpaces(s, e)
    IN  k >= Len(s) \/ IsLetter(Ch(s, k))

(* \d{1,2}[.,]\d{2} at offset j, then the lookahead: the end offset or -1 *)
PriceEnd(s, j) ==
    LET sep(c) == c \in {".", ","}
        two == /\ IsDigit(Ch(s, j)) /\ IsDigit(Ch(s, j + 1)) /\ sep(Ch(s, j + 2))
               /\ IsDigit(Ch(s, j + 3)) /\ IsDigit(Ch(s, j + 4))
               /\ Lookahead(s, j + 5)
        one == /\ IsDigit(Ch(s, j)) /\ sep(Ch(s, j + 1))
               /\ IsDigit(Ch(s, j + 2)) /\ IsDigit(Ch(s, j + 3))
               /\ Lookahead(s, j + 4)
    IN  IF two THEN j + 5 ELSE IF one THEN j + 4 ELSE -1

(* \s*CHF\s*<price><lookahead> at offset t: <<price start, price end>> *)
TailAt(s, t) ==
    LET i == SkipSpaces(s, t)
    IN  IF i + 3 <= Len(s) /\ Lower(Slice(s, i, i + 3)) = "chf"
        THEN LET j == SkipSpaces(s, i + 3)
                 e == PriceEnd(s, j)
             IN  IF e # -1 THEN <<j, e>> ELSE <<>>
        ELSE <<>>

(* a greedy title: it runs up to the last price marker of the text *)
FirstTailGreedy(s, t) == MaxOf({k \in t..(Len(s) - 1) : TailAt(s, k) # <<>>})

FirstTail(s, t) == MinOf({k \in t..(Len(s) - 1) : TailAt(s, k) # <<>>})

(* leftmost match of the pattern at or after p; the title .+? is the       *)
(* shortest non-empty run without a newline: <<start, title end>>          *)
RECURSIVE MatchFrom(_, _)
MatchFrom(s, p) ==
    IF p >= Len(s) THEN <<>>
    ELSE LET t == FirstTail(s, p + 1)
         IN  IF t = -1 THEN <<>>
             ELSE IF \A k \in p..(t - 1) : Ch(s, k) # "\n" THEN <<p, t>>
             ELSE MatchFrom(s, p + 1)

RECURSIVE FindIter(_, _)
FindIter(s, p) ==
    LET m == MatchFrom(s, p)
    IN  IF m = <<>> THEN <<>>
        ELSE LET pr == TailAt(s, m[2])
             IN  <<[title |-> Slice(s, m[1], m[2]), price |-> Slice(s, pr[1], pr[2])]>>
                 \o FindIter(s, pr[2])

(* re.sub(r"([a-zäöü])([A-ZÄÖÜ])", r"\1 \2", title) *)
CamelSplit(s) ==
    Cat([i \in 1..Len(s) |->
           IF IsLower(Ch(s, i - 1)) /\ IsUpper(Ch(s, i))
           THEN Ch(s, i - 1) \o " " ELSE Ch(s, i - 1)])

CleanTitle(raw) ==
    LET t1 == Strip(raw, {" ", ",", ";", ":", "-"})
        t2 == Replace(t1, "Tagessuppeklein", "Tagessuppe klein")
        t3 == Replace(t2, "Tagessuppegross", "Tagessuppe gross")
        t4 == CamelSplit(t3)
    IN  SubSpaceRuns(t4, 2, " ")

CleanPrice(raw) == Replace(raw, ",", ".")

RECURSIVE PricedItems(_)
PricedItems(ms) ==
    IF ms = <<>> THEN <<>>
    ELSE LET title == CleanTitle(ms[1].title)
         IN  (IF title # ""
              THEN <<[title |-> title, price_chf |-> CleanPrice(ms[1].price)]>>
              ELSE <<>>)
             \o PricedItems(Tail(ms))

(* the per-line fallback left out *)
LineItemsNone(lns) == <<>>

(* the whitespace normalisation of the line left out *)
RECURSIVE LineItemsRaw(_)
LineItemsRaw(lns) ==
    IF lns = <<>> THEN <<>>
    ELSE LET t == Strip(lns[1], {" ", ",", ";"})
         IN  (IF t # "" THEN <<[title |-> t, price_chf |-> None]>> ELSE <<>>)
             \o LineItemsRaw(Tail(lns))

RECURSIVE LineItems(_)
LineItems(lns) ==
    IF lns = <<>> THEN <<>>
    ELSE LET t == Strip(CollapseWs(lns[1]), {" ", ",", ";"})
         IN  (IF t # "" THEN <<[title |-> t, price_chf |-> None]>> ELSE <<>>)
             \o LineItems(Tail(lns))

CleanText(lns) ==
    StripLegend(StripAllergens(Strip(CollapseWs(Join(" ", lns)), SpaceSet)))

_extract_items_from_lines(lns) ==
    LET priced == PricedItems(FindIter(CleanText(lns), 0))
    IN  IF priced # <<>> THEN priced ELSE LineItems(lns)

(* ----------------------- parse_week_pdf (148-241) ---------------------- *)
WEEKDAY_ORDER == <<"montag", "dienstag", "mittwoch", "donnerstag", "freitag">>

Weekdays == {WEEKDAY_ORDER[i] : i \in 1..Len(WEEKDAY_ORDER)}

EmptyDict == [k \in {} |-> <<>>]

(* d[k] = v of a Python dict: the key is added when it is missing *)
DictSet(d, k, v) == [x \in (DOMAIN d) \cup {k} |-> IF x = k THEN v ELSE d[x]]

(* results = {} : no key until a weekday is assigned *)
InitResultsNoKeys == EmptyDict

InitResults == [wd \in Weekdays |-> <<>>]

(* 2) normalise and filter, lines 178-188 *)
NormLine(ln) == Strip(CollapseWs(_squash_spaced_letters(ln)), SpaceSet)

IsBoilerplate(ln) ==
    LET low == Lower(ln)
    IN  StartsWith(low, "menüplan") \/ Contains(low, "kw")

NormalizeLines(tl) ==
    SelectSeq([i \in 1..Len(tl) |-> NormLine(tl[i])],
              LAMBDA ln : ln # "" /\ ~IsBoilerplate(ln))

(* 3) the weekday regex without \b: the letters of the name, each but the  *)
(* first preceded by \s*, case-insensitively                               *)
RECURSIVE DayMatchFrom(_, _, _, _)
DayMatchFrom(s, i, wd, k) ==
    IF k >= Len(wd) THEN TRUE
    ELSE LET j == IF k = 0 THEN i ELSE SkipSpaces(s, i)
         IN  LowerCh(Ch(s, j)) = Ch(wd, k) /\ DayMatchFrom(s, j + 1, wd, k + 1)

DaySearch(s, wd) == MinOf({i \in 0..(Len(s) - 1) : DayMatchFrom(s, i, wd, 0)})

FindHits(b) ==
    SelectSeq([i \in 1..Len(WEEKDAY_ORDER) |->
                 <<WEEKDAY_ORDER[i], DaySearch(b, WEEKDAY_ORDER[i])>>],
              LAMBDA h : h[2] # -1)

(* hits.sort(key=lambda x: x[1]): stable insertion by offset *)
RECURSIVE InsertHit(_, _)
InsertHit(sorted, h) ==
    IF sorted = <<>> THEN <<h>>
    ELSE IF h[2] < sorted[1][2] THEN <<h>> \o sorted
    ELSE <<sorted[1]>> \o InsertHit(Tail(sorted), h)

(* the sort left out: hits stay in canonical weekday order *)
SortHitsNone(hs) == hs

RECURSIVE SortHits(_)
SortHits(hs) ==
    IF hs = <<>> THEN <<>>
    ELSE InsertHit(SortHits(SubSeq(hs, 1, Len(hs) - 1)), hs[Len(hs)])

(* the end one character too far: neighbouring segments overlap *)
SegmentEndInclusive(hs, i, b) == IF i + 1 <= Len(hs) THEN hs[i + 1][2] + 1 ELSE Len(b)

SegmentEnd(hs, i, b) == IF i + 1 <= Len(hs) THEN hs[i + 1][2] ELSE Len(b)

SegmentsOf(hs, b) ==
    [wd \in {hs[i][1] : i \in 1..Len(hs)} |->
       LET i == CHOOSE k \in 1..Len(hs) : hs[k][1] = wd
       IN  Slice(b, hs[i][2], SegmentEnd(hs, i, b))]

SegLines(seg) ==
    LET ls == SelectSeq(SplitLines(seg), LAMBDA ln : Strip(ln, SpaceSet) # "")
    IN  [i \in 1..Len(ls) |-> Strip(CollapseWs(ls[i]), SpaceSet)]

RECURSIVE ExtractSegments(_, _, _)
ExtractSegments(res, segs, i) ==
    IF i > Len(WEEKDAY_ORDER) THEN res
    ELSE LET wd == WEEKDAY_ORDER[i]
         IN  IF wd \in DOMAIN segs
             THEN ExtractSegments(
                      DictSet(res, wd, _extract_items_from_lines(SegLines(segs[wd]))),
                      segs, i + 1)
             ELSE ExtractSegments(res, segs, i + 1)

AnyItems(res) == \E wd \in DOMAIN res : res[wd] # <<>>

(* 4) marker fallback, lines 216-227 *)
IsMarker(ln) ==
    LET low == Lower(ln)
    IN  Contains(low, "tagessuppe") /\ Contains(low, "klein")

MarkerIdx(nl) ==
    SelectSeq([i \in 1..Len(nl) |-> i - 1], LAMBDA i : IsMarker(nl[i + 1]))

(* the next anchor line taken into the block *)
MarkerBlockInclusive(nl, midx, i) ==
    LET start == midx[i + 1]
        end == IF i + 1 < Len(midx) THEN midx[i + 2] + 1 ELSE Len(nl)
    IN  SubSeq(nl, start + 1, end)

MarkerBlock(nl, midx, i) ==
    LET start == midx[i + 1]
        end == IF i + 1 < Len(midx) THEN midx[i + 2] ELSE Len(nl)
    IN  SubSeq(nl, start + 1, end)

RECURSIVE AssignBlocks(_, _, _, _)
AssignBlocks(res, nl, midx, i) ==
    IF i >= Len(WEEKDAY_ORDER) THEN res
    ELSE AssignBlocks(
             DictSet(res, WEEKDAY_ORDER[i + 1],
                     _extract_items_from_lines(MarkerBlock(nl, midx, i))),
             nl, midx, i + 1)

(* as many blocks as there are anchors, also when fewer than five *)
RECURSIVE AssignSomeBlocks(_, _, _, _)
AssignSomeBlocks(res, nl, midx, i) ==
    IF i >= Len(WEEKDAY_ORDER) \/ i >= Len(midx) THEN res
    ELSE AssignSomeBlocks(
             DictSet(res, WEEKDAY_ORDER[i + 1],
                     _extract_items_from_lines(MarkerBlock(nl, midx, i))),
             nl, midx, i + 1)

MarkerResultsPartial(res, nl, midx) == AssignSomeBlocks(res, nl, midx, 0)

MarkerResults(res, nl, midx) ==
    IF Len(midx) >= 5 THEN AssignBlocks(res, nl, midx, 0) ELSE res

(* 5) dedup, lines 229-239 *)
(* the key compared with the title's letter case kept *)
ItemKeyCaseSensitive(it) == <<it.title, it.price_chf>>

ItemKey(it) == <<Lower(it.title), it.price_chf>>

RECURSIVE DedupFrom(_, _, _)
DedupFrom(its, i, seen) ==
    IF i > Len(its) THEN <<>>
    ELSE IF ItemKey(its[i]) \in seen THEN DedupFrom(its, i + 1, seen)
    ELSE <<its[i]>> \o DedupFrom(its, i + 1, seen \cup {ItemKey(its[i])})

Dedup(its) == DedupFrom(its, 1, {})

DedupAll(res) == [wd \in DOMAIN res |-> Dedup(res[wd])]

(* ------------------------------ inputs --------------------------------- *)
SeqsUpTo(S, n) == UNION {[1..k -> S] : k \in 0..n}

(* text lines as the PDF reader hands them over (lines 156-176) *)
RawLines ==
    { "M O N T A G",
      "Dienstag",
      "Freitag",
      "Tagessuppe klein CHF 4.50",
      "Poulet, Reis",
      "KW 12" }

(* lines of a plan whose weekday headings are missing or nearly so *)
MarkerLines ==
    { "Tagessuppe klein CHF 4.50",
      "Poulet, Reis",
      "Freitag" }

IdleParse ==
    /\ text_lines = <<>>
    /\ norm_lines = <<>>
    /\ blob = ""
    /\ hits = <<>>
    /\ segments_by_pos = EmptyDict
    /\ primary = InitResults
    /\ marker_idx = <<>>
    /\ fallback = "pending"
    /\ results = InitResults

IdleExtract == dishes = <<>> /\ lines = <<>> /\ items = <<>>

IdleDedup == L = <<>> /\ deduped = <<>> /\ deduped2 = <<>>

IdleSquash == squash_in = "" /\ squash_out = ""

(* --------------------- parse_week_pdf, step by step -------------------- *)
Init ==
    /\ pc = "collected"
    /\ text_lines \in SeqsUpTo(RawLines, MaxLines) \cup SeqsUpTo(MarkerLines, MaxMarkerLines)
    /\ norm_lines = <<>>
    /\ blob = ""
    /\ hits = <<>>
    /\ segments_by_pos = EmptyDict
    /\ primary = InitResults
    /\ marker_idx = <<>>
    /\ fallback = "pending"
    /\ results = InitResults
    /\ IdleExtract /\ IdleDedup /\ IdleSquash

Normalize ==
    /\ pc = "collected"
    /\ norm_lines' = NormalizeLines(text_lines)
    /\ pc' = "normalized"
    /\ UNCHANGED <<text_lines, blob, hits, segments_by_pos, primary, marker_idx,
                   fallback, results>>
    /\ UNCHANGED <<extract_vars, dedup_vars, squash_vars>>

Segment ==
    /\ pc = "normalized"
    /\ LET b == Lower(Join("\n", norm_lines))
           found == FindHits(b)
       IN  /\ blob' = b
           /\ IF Len(found) >= 2
              THEN /\ hits' = SortHits(found)
                   /\ segments_by_pos' = SegmentsOf(SortHits(found), b)
              ELSE /\ hits' = found
                   /\ segments_by_pos' = EmptyDict
    /\ pc' = "segmented"
    /\ UNCHANGED <<text_lines, norm_lines, primary, marker_idx, fallback, results>>
    /\ UNCHANGED <<extract_vars, dedup_vars, squash_vars>>

ExtractPrimary ==
    /\ pc = "segmented"
    /\ results' = ExtractSegments(results, segments_by_pos, 1)
    /\ primary' = results'
    /\ pc' = "primary"
    /\ UNCHANGED <<text_lines, norm_lines, blob, hits, segments_by_pos, marker_idx,
                   fallback>>
    /\ UNCHANGED <<extract_vars, dedup_vars, squash_vars>>

SkipFallback ==
    /\ pc = "primary"
    /\ AnyItems(results)
    /\ fallback' = "skipped"
    /\ pc' = "extracted"
    /\ UNCHANGED <<text_lines, norm_lines, blob, hits, segments_by_pos, primary,
                   marker_idx, results>>
    /\ UNCHANGED <<extract_vars, dedup_vars, squash_vars>>

MarkerFallback ==
    /\ pc = "primary"
    /\ ~AnyItems(results)
    /\ marker_idx' = MarkerIdx(norm_lines)
    /\ results' = MarkerResults(results, norm_lines, marker_idx')
    /\ fallback' = IF results' = results THEN "insufficient" ELSE "applied"
    /\ pc' = "extracted"
    /\ UNCHANGED <<text_lines, norm_lines, blob, hits, segments_by_pos, primary>>
    /\ UNCHANGED <<extract_vars, dedup_vars, squash_vars>>

DedupStep ==
    /\ pc = "extracted"
    /\ results' = DedupAll(results)
    /\ pc' = "done"
    /\ UNCHANGED <<text_lines, norm_lines, blob, hits, segments_by_pos, primary,
                   marker_idx, fallback>>
    /\ UNCHANGED <<extract_vars, dedup_vars, squash_vars>>

Next ==
    \/ Normalize
    \/ Segment
    \/ ExtractPrimary
    \/ SkipFallback
    \/ MarkerFallback
    \/ DedupStep

Spec == Init /\ [][Next]_vars

(* ---------------- _extract_items_from_lines on its own ----------------- *)
(* the dishes of a menu: a title and the amount printed after CHF *)
Dishes ==
    { [title |-> "Tagessuppe klein", amount |-> "4.50"],
      [title |-> "Pouletgeschnetzeltes", amount |-> "12.90"],
      [title |-> "PouletCurry", amount |-> "3,00"],
      [title |-> "Gemüse -", amount |-> "12,90"] }

DishText(d) == d.title \o " CHF " \o d.amount

(* the dishes back to back: on one line, one per line, or without a blank *)
LayoutsOf(ds) ==
    { <<Join(" ", [i \in 1..Len(ds) |-> DishText(ds[i])])>>,
      [i \in 1..Len(ds) |-> DishText(ds[i])],
      <<Cat([i \in 1..Len(ds) |-> DishText(ds[i])])>> }

(* lines of a segment without any currency marker *)
PlainLines ==
    { "Poulet, Reis", " Salat   mit Ei ;", " ; ", "", "Suppe Info", "Menu A, C" }

InitExtract ==
    /\ pc = "extract_call"
    /\ \/ /\ dishes \in SeqsUpTo(Dishes, MaxDishes) \ {<<>>}
          /\ lines \in LayoutsOf(dishes)
       \/ /\ dishes = <<>>
          /\ lines \in SeqsUpTo(PlainLines, MaxPlainLines)
    /\ items = <<>>
    /\ IdleParse /\ IdleDedup /\ IdleSquash

ExtractCall ==
    /\ pc = "extract_call"
    /\ items' = _extract_items_from_lines(lines)
    /\ pc' = "extract_ret"
    /\ UNCHANGED <<dishes, lines, parse_vars, dedup_vars, squash_vars>>

NextExtract == ExtractCall

SpecExtract == InitExtract /\ [][NextExtract]_vars

(* ----------------------- the dedup step on its own --------------------- *)
ItemTitles == {"Suppe", "SUPPE", "Brot"}

ItemPrices == {None, "4.50"}

MenuItems == [title : ItemTitles, price_chf : ItemPrices]

InitDedup ==
    /\ pc = "dedup_call"
    /\ L \in SeqsUpTo(MenuItems, MaxItems)
    /\ deduped = <<>>
    /\ deduped2 = <<>>
    /\ IdleParse /\ IdleExtract /\ IdleSquash

DedupOnce ==
    /\ pc = "dedup_call"
    /\ deduped' = Dedup(L)
    /\ pc' = "dedup_once"
    /\ UNCHANGED <<L, deduped2, parse_vars, extract_vars, squash_vars>>

DedupTwice ==
    /\ pc = "dedup_once"
    /\ deduped2' = Dedup(deduped)
    /\ pc' = "dedup_twice"
    /\ UNCHANGED <<L, deduped, parse_vars, extract_vars, squash_vars>>

NextDedup == DedupOnce \/ DedupTwice

SpecDedup == InitDedup /\ [][NextDedup]_vars

(* -------------------- _squash_spaced_letters on its own ---------------- *)
SquashTokens == {"M", "o", "Suppe", "4"}

InitSquash ==
    /\ pc = "squash_call"
    /\ squash_in \in {Join(" ", ts) : ts \in SeqsUpTo(SquashTokens, MaxTokens)}
    /\ squash_out = ""
    /\ IdleParse /\ IdleExtract /\ IdleDedup

SquashCall ==
    /\ pc = "squash_call"
    /\ squash_out' = _squash_spaced_letters(squash_in)
    /\ pc' = "squash_ret"
    /\ UNCHANGED <<squash_in, parse_vars, extract_vars, dedup_vars>>

NextSquash == SquashCall

SpecSquash == InitSquash /\ [][NextSquash]_vars

(* ------------------- properties of parse_week_pdf ---------------------- *)
HitDay(k) == hits[k][1]

HitOffset(k) == hits[k][2]

HitOf(wd) == CHOOSE k \in 1..Len(hits) : hits[k][1] = wd

Located == {hits[k][1] : k \in 1..Len(hits)}

SegStart(wd) == hits[HitOf(wd)][2]

SegStop(wd) == SegStart(wd) + Len(segments_by_pos[wd])

CanonicalIndex(wd) == CHOOSE i \in 1..Len(WEEKDAY_ORDER) : WEEKDAY_ORDER[i] = wd

MarkerLinesOf(nl) == {k \in 1..Len(nl) : IsMarker(nl[k])}

(* the n-th anchor line (1-based line number), n = 1, 2, ... *)
NthMarker(nl, n) ==
    CHOOSE k \in MarkerLinesOf(nl) :
        Cardinality({j \in MarkerLinesOf(nl) : j <= k}) = n

(* block i = 0..4: from anchor i inclusive to anchor i+1 exclusive, or to the end *)
BlockOf(nl, i) ==
    LET first == NthMarker(nl, i + 1)
        last == IF Cardinality(MarkerLinesOf(nl)) >= i + 2
                THEN NthMarker(nl, i + 2) - 1
                ELSE Len(nl)
    IN  [k \in 1..(last - first + 1) |-> nl[first + k - 1]]

(* C1: with n >= 2 weekdays located at first-match offsets o1 < ... < on, the
   segment of the weekday at o_i is exactly blob[o_i:o_{i+1}], the last one
   blob[o_n:len(blob)]; the segments joined in offset order are the blob from
   o1 to its end, without gap or overlap. *)
SegmentsPartitionBlob ==
    (pc = "segmented" /\ Len(hits) >= 2) =>
        /\ \A k \in 1..Len(hits) : HitOffset(k) = DaySearch(blob, HitDay(k))
        /\ \A k \in 1..(Len(hits) - 1) : HitOffset(k) < HitOffset(k + 1)
        /\ DOMAIN segments_by_pos = Located
        /\ \A k \in 1..Len(hits) :
              segments_by_pos[HitDay(k)] =
                  SubSeq(blob, HitOffset(k) + 1,
                         IF k < Len(hits) THEN HitOffset(k + 1) ELSE Len(blob))
        /\ Cat([k \in 1..Len(hits) |-> segments_by_pos[HitDay(k)]])
              = SubSeq(blob, HitOffset(1) + 1, Len(blob))

SegmentsPartitionBlobWitness ==
    /\ pc = "segmented"
    /\ Len(hits) = 3
    /\ Len(segments_by_pos[HitDay(2)]) > Len(HitDay(2)) + 6

(* C2: with no weekday name recognisable and at least five anchor lines, the
   marker segmenter is used: block i (anchor i inclusive to anchor i+1
   exclusive, or to the end) is extracted into the canonical weekday i, and
   all five weekday lists of the result are non-empty. *)
MarkerBlocksAssigned ==
    (pc \in {"extracted", "done"} /\ Len(hits) = 0
        /\ Cardinality(MarkerLinesOf(norm_lines)) >= 5) =>
        /\ fallback = "applied"
        /\ \A i \in 0..4 :
              /\ results[WEEKDAY_ORDER[i + 1]] # <<>>
              /\ pc = "extracted" =>
                    results[WEEKDAY_ORDER[i + 1]]
                        = _extract_items_from_lines(BlockOf(norm_lines, i))

MarkerBlocksAssignedWitness ==
    /\ pc = "done"
    /\ fallback = "applied"
    /\ Len(hits) = 0
    /\ Len(marker_idx) = 5
    /\ Len(norm_lines) = 6
    /\ \A i \in 1..5 : results[WEEKDAY_ORDER[i]] # <<>>

(* C3: in every state of every path the mapping has exactly the five keys
   montag..freitag, each mapped to a (possibly empty) list. *)
FiveKeysAlways ==
    /\ DOMAIN results = Weekdays
    /\ \A wd \in DOMAIN results : DOMAIN results[wd] = 1..Len(results[wd])

FiveKeysAlwaysWitness ==
    /\ pc = "done"
    /\ fallback = "skipped"
    /\ \E wd \in Weekdays : results[wd] = <<>>
    /\ \E wd \in Weekdays : results[wd] # <<>>

(* C4: when the primary strategy produced no item and there are fewer than
   five anchor lines, all five lists are empty: no block is assigned. *)
DegradeToEmpty ==
    (pc \in {"extracted", "done"} /\ ~AnyItems(primary)
        /\ Cardinality(MarkerLinesOf(norm_lines)) < 5) =>
        /\ fallback = "insufficient"
        /\ \A wd \in Weekdays : results[wd] = <<>>

DegradeToEmptyWitness ==
    /\ pc = "done"
    /\ ~AnyItems(primary)
    /\ Cardinality(MarkerLinesOf(norm_lines)) = 4
    /\ \A wd \in Weekdays : results[wd] = <<>>

(* C9 as stated: for located weekdays a before b in canonical order, the
   segment of a lies entirely before the segment of b. *)
SegmentsInCanonicalOrder ==
    (pc = "segmented" /\ Len(hits) >= 2) =>
        \A a, b \in Located :
            CanonicalIndex(a) < CanonicalIndex(b) => SegStop(a) <= SegStart(b)

(* C9 amended: the segments are ordered by first-match offset; the segment of
   a lies entirely before that of b exactly when a's first match comes first. *)
SegmentsInOffsetOrder ==
    (pc = "segmented" /\ Len(hits) >= 2) =>
        \A a, b \in Located :
            a # b =>
                /\ Len(segments_by_pos[a]) > 0
                /\ (SegStop(a) <= SegStart(b))
                      <=> (DaySearch(blob, a) < DaySearch(blob, b))

SegmentsInOffsetOrderWitness ==
    /\ pc = "segmented"
    /\ Len(hits) >= 2
    /\ \E a, b \in Located :
          /\ CanonicalIndex(a) < CanonicalIndex(b)
          /\ SegStart(b) < SegStart(a)
          /\ SegStop(b) <= SegStart(a)

(* C10: the marker fallback is attempted if and only if fewer than two
   weekdays are located: with two or more, every located weekday gets at least
   one item from the primary strategy, and the results stay the primary ones. *)
FallbackIffFewHits ==
    /\ (pc = "primary" /\ Len(hits) >= 2) =>
           \A wd \in Located : results[wd] # <<>>
    /\ pc \in {"extracted", "done"} =>
           ((fallback # "skipped") <=> (Len(hits) < 2))
    /\ (pc = "extracted" /\ Len(hits) >= 2) => results = primary

FallbackIffFewHitsWitness ==
    /\ pc = "extracted"
    /\ Len(hits) >= 2
    /\ fallback = "skipped"
    /\ \E wd \in Located : \A k \in 1..Len(results[wd]) : results[wd][k].price_chf = None

(* ------------- properties of _extract_items_from_lines ----------------- *)
TrimTitle(t) == Strip(t, {" ", ",", ";", ":", "-"})

HasCaseBoundary(t) ==
    \E i \in 0..(Len(t) - 2) : IsLower(Ch(t, i)) /\ IsUpper(Ch(t, i + 1))

NoCurrency(lns) == \A i \in 1..Len(lns) : ~Contains(Lower(lns[i]), "chf")

LineTitle(ln) == Strip(CollapseWs(ln), {" ", ",", ";"})

OneItemPerNonEmptyLine ==
    (pc = "extract_ret" /\ dishes = <<>> /\ NoCurrency(lines)) =>
        LET kept == SelectSeq(lines, LAMBDA ln : ln # "")
        IN  items = [i \in 1..Len(kept) |->
                       [title |-> LineTitle(kept[i]), price_chf |-> None]]

(* C6 amended: without any currency marker, one item per line whose
   whitespace-normalised, punctuation-trimmed text is non-empty, in input
   order, with that text as title and price None. *)
OneItemPerTitledLine ==
    (pc = "extract_ret" /\ dishes = <<>> /\ NoCurrency(lines)) =>
        LET kept == SelectSeq(lines, LAMBDA ln : LineTitle(ln) # "")
        IN  /\ Len(items) = Len(kept)
            /\ \A i \in 1..Len(kept) :
                  /\ items[i].price_chf = None
                  /\ items[i].title = LineTitle(kept[i])
                  /\ ~Contains(items[i].title, "  ")

OneItemPerTitledLineWitness ==
    /\ pc = "extract_ret"
    /\ dishes = <<>>
    /\ Len(lines) = 3
    /\ \E i \in 1..3 : lines[i] # "" /\ LineTitle(lines[i]) = ""
    /\ \E i \in 1..3 : lines[i] = " Salat   mit Ei ;"
    /\ Len(items) = 2

(* --------------------- properties of the dedup step -------------------- *)
FirstsOf(its) ==
    {i \in 1..Len(its) :
        \A j \in 1..(i - 1) :
            <<Lower(its[j].title), its[j].price_chf>>
                # <<Lower(its[i].title), its[i].price_chf>>}

NthOf(S, n) == CHOOSE i \in S : Cardinality({j \in S : j <= i}) = n

(* C7: dedup keeps exactly the first item of each key (lower-cased title,
   price), in the original relative order, and a second pass changes nothing. *)
DedupKeepsFirstsIdempotent ==
    /\ pc \in {"dedup_once", "dedup_twice"} =>
          /\ Len(deduped) = Cardinality(FirstsOf(L))
          /\ \A n \in 1..Len(deduped) : deduped[n] = L[NthOf(FirstsOf(L), n)]
    /\ pc = "dedup_twice" => deduped2 = deduped

DedupKeepsFirstsIdempotentWitness ==
    /\ pc = "dedup_twice"
    /\ Len(L) = 3
    /\ Len(deduped) = 2
    /\ L[1].title = "Suppe" /\ L[3].title = "SUPPE"
    /\ L[1].price_chf = L[3].price_chf
    /\ deduped = <<L[1], L[2]>>
    /\ deduped2 = deduped

(* ---------------- properties of _squash_spaced_letters ----------------- *)
IsSingleLetter(w) == Len(w) = 1 /\ IsLetter(w)

(* number of single-letter tokens in a row from token i on *)
RunLength(ws, i) ==
    LET stop == MinOf({k \in i..Len(ws) : ~IsSingleLetter(ws[k])})
    IN  (IF stop = -1 THEN Len(ws) + 1 ELSE stop) - i

(* every maximal run of three or more single letters made one word *)
RECURSIVE CollapseRuns(_, _)
CollapseRuns(ws, i) ==
    IF i > Len(ws) THEN <<>>
    ELSE LET r == RunLength(ws, i)
         IN  IF r >= 3
             THEN <<Cat(SubSeq(ws, i, i + r - 1))>> \o CollapseRuns(ws, i + r)
             ELSE <<ws[i]>> \o CollapseRuns(ws, i + 1)

(* C8: every run of three or more single letters separated by whitespace
   comes out as one contiguous word; other tokens pass through unchanged. *)
SquashCollapsesLetterRuns ==
    pc = "squash_ret" =>
        squash_out = Join(" ", CollapseRuns(Split(squash_in), 1))

====
